---- MODULE Spec2Model ----
(***************************************************************************)
(* Model of alteryx_server_api/alteryx_gallery_api_v3_compatible.py: the   *)
(* Gallery client (validated credentials, OAuth 1.0a request signing and   *)
(* the eight endpoint operations).                                         *)
(*                                                                         *)
(* A Python str is a sequence of Unicode code points, a bytes object a     *)
(* sequence of octets.  A Python value is a record [type, val] whose val   *)
(* is always a sequence, so that any two values can be compared.           *)
(***************************************************************************)
EXTENDS Integers, Sequences, FiniteSets, TLC

----------------------------------------------------------------------------
(* Bounds of the model *)

\* timestamps are drawn from TimeBase .. TimeBase + MaxTick
MaxTick == 1
\* a mapping passed directly to generate_signature has at most MaxParams keys
MaxParams == 2

----------------------------------------------------------------------------
(* Python values *)

PyStr(s) == [type |-> "str", val |-> s]
PyNone == [type |-> "NoneType", val |-> <<>>]
PyInt(n) == [type |-> "int", val |-> <<n>>]
Dict0 == [type |-> "dict", val |-> <<>>]

\* bool(v) of the values above
Truthy(v) ==
  CASE v.type = "str" -> v.val # <<>>
    [] v.type = "int" -> v.val[1] # 0
    [] v.type = "dict" -> v.val # <<>>
    [] OTHER -> FALSE

\* "é x": a string with a non-ASCII character (U+00E9) and a space
StrAccent == <<233, 32, 120>>
\* "h:/a"
StrLoc == <<104, 58, 47, 97>>

\* the values a caller hands to the constructor and the setters
PyValues ==
  { PyStr(StrLoc), PyStr(StrAccent), PyStr(<<>>), PyNone, PyInt(0), PyInt(7) }

----------------------------------------------------------------------------
(* Credential holder *)

NoGallery ==
  [constructed |-> FALSE, api_location |-> <<>>, api_key |-> <<>>,
   api_secret |-> <<>>]

\* the setter without its isinstance check
SetterRaisesNoTypeCheck(v) ==
  IF ~Truthy(v) THEN "Exception" ELSE "none"

\* the two checks every setter makes, in order: `if not x`, `isinstance`
SetterRaises(v) ==
  IF ~Truthy(v) THEN "Exception"
  ELSE IF v.type # "str" THEN "TypeError"
  ELSE "none"

\* a setter that stores before it validates
StoreThenValidate(g, field, v) ==
  [gallery |-> [g EXCEPT ![field] = v.val], raised |-> SetterRaises(v)]

\* one property setter: validate, then store in the private attribute
Setter(g, field, v) ==
  IF SetterRaises(v) # "none"
    THEN [gallery |-> g, raised |-> SetterRaises(v)]
    ELSE [gallery |-> [g EXCEPT ![field] = v.val], raised |-> "none"]

api_location_setter(g, loc) == Setter(g, "api_location", loc)
api_key_setter(g, key) == Setter(g, "api_key", key)
api_secret_setter(g, secret_key) == Setter(g, "api_secret", secret_key)

\* Gallery.__init__: the three assignments in order; an exception leaves
\* __init__ and the caller gets no object
Gallery__init__(api_location, api_key, api_secret) ==
  LET blank == [NoGallery EXCEPT !.constructed = TRUE]
      r1 == api_location_setter(blank, api_location)
      r2 == api_key_setter(r1.gallery, api_key)
      r3 == api_secret_setter(r2.gallery, api_secret)
  IN  IF r1.raised # "none" THEN [gallery |-> NoGallery, raised |-> r1.raised]
      ELSE IF r2.raised # "none"
        THEN [gallery |-> NoGallery, raised |-> r2.raised]
      ELSE IF r3.raised # "none"
        THEN [gallery |-> NoGallery, raised |-> r3.raised]
      ELSE r3

----------------------------------------------------------------------------
(* Strings *)

RECURSIVE Concat(_)
\* "".join(parts)
Concat(parts) ==
  IF parts = <<>> THEN <<>>
  ELSE IF Len(parts) = 1 THEN parts[1]
  ELSE LET h == Len(parts) \div 2
       IN  Concat(SubSeq(parts, 1, h)) \o Concat(SubSeq(parts, h + 1, Len(parts)))

RECURSIVE Join(_, _)
\* sep.join(parts)
Join(sep, parts) ==
  IF parts = <<>> THEN <<>>
  ELSE IF Len(parts) = 1 THEN Head(parts)
  ELSE Head(parts) \o sep \o Join(sep, Tail(parts))

IsAscii(s) == \A i \in 1..Len(s) : s[i] < 128

\* str.upper() on the ASCII letters
Upper(s) ==
  [i \in 1..Len(s) |-> IF s[i] >= 97 /\ s[i] <= 122 THEN s[i] - 32 ELSE s[i]]

RECURSIVE ToDecimal(_)
\* str(n) of a non-negative int
ToDecimal(n) ==
  IF n < 10 THEN <<48 + n>> ELSE ToDecimal(n \div 10) \o <<48 + (n % 10)>>

\* one code point encoded as UTF-8 (up to U+FFFF)
Utf8Char(c) ==
  IF c < 128 THEN <<c>>
  ELSE IF c < 2048 THEN <<192 + (c \div 64), 128 + (c % 64)>>
  ELSE <<224 + (c \div 4096), 128 + ((c \div 64) % 64), 128 + (c % 64)>>

\* "0123456789ABCDEF"
HexDigits == <<48, 49, 50, 51, 52, 53, 54, 55, 56, 57, 65, 66, 67, 68, 69, 70>>

\* "%XX" of one octet
PercentByte(b) == <<37, HexDigits[(b \div 16) + 1], HexDigits[(b % 16) + 1]>>

\* the characters quote() never escapes: letters, digits and "_.-~"
AlwaysSafe(c) ==
  \/ c >= 65 /\ c <= 90
  \/ c >= 97 /\ c <= 122
  \/ c >= 48 /\ c <= 57
  \/ c \in {95, 46, 45, 126}

\* quote() of one character with the given extra safe characters
QuoteChar(c, safe) ==
  IF AlwaysSafe(c) \/ c \in safe THEN <<c>>
  ELSE LET bytes == Utf8Char(c)
       IN  Concat([i \in 1..Len(bytes) |-> PercentByte(bytes[i])])

\* urllib.parse.quote(s, safe): UTF-8 encode, then percent-escape
Quote(s, safe) == Concat([i \in 1..Len(s) |-> QuoteChar(s[i], safe)])

\* the lambda of generate_signature: requests.utils.quote(x, safe="~")
quote(x) == Quote(x, {126})

\* urllib.parse.quote_plus(s) as urlencode calls it: safe is empty, a space
\* becomes "+"
QuotePlus(s) ==
  LET q == Quote(s, {32})
  IN  [i \in 1..Len(q) |-> IF q[i] = 32 THEN 43 ELSE q[i]]

\* urllib.parse.urlencode of a sequence of (key, value) pairs
urlencode(items) ==
  Join(<<38>>,
       [i \in 1..Len(items) |->
          QuotePlus(items[i][1]) \o <<61>> \o QuotePlus(items[i][2])])

RECURSIVE StrLess(_, _)
\* a < b of two str: lexicographic on code points
StrLess(a, b) ==
  IF b = <<>> THEN FALSE
  ELSE IF a = <<>> THEN TRUE
  ELSE IF Head(a) # Head(b) THEN Head(a) < Head(b)
  ELSE StrLess(Tail(a), Tail(b))

\* x < y of two (key, value) tuples
ItemLess(x, y) ==
  \/ StrLess(x[1], y[1])
  \/ x[1] = y[1] /\ StrLess(x[2], y[2])

RECURSIVE InsertSorted(_, _)
InsertSorted(x, sortedItems) ==
  IF sortedItems = <<>> THEN <<x>>
  ELSE IF ItemLess(x, Head(sortedItems)) THEN <<x>> \o sortedItems
  ELSE <<Head(sortedItems)>> \o InsertSorted(x, Tail(sortedItems))

RECURSIVE SortRec(_, _)
SortRec(items, acc) ==
  IF items = <<>> THEN acc
  ELSE SortRec(Tail(items), InsertSorted(Head(items), acc))

\* the mapping iterated as it was inserted
Unsorted(items) == items

\* sorted(params.items()): a new list, ascending
sorted(items) == SortRec(items, <<>>)

----------------------------------------------------------------------------
(* Signature generator *)

\* hmac.new(key, msg, hashlib.sha1).digest(): the digest is a term over its
\* two inputs (two digests are equal exactly when key and message are)
HmacSha1(key, msg) == [key |-> key, msg |-> msg]

\* base64.b64encode(digest): a bytes object wrapping the digest
b64encode(digest) == [b64 |-> digest]

NoSignature == [b64 |-> [key |-> <<>>, msg |-> <<>>]]

\* "&".join([self.api_secret, ""])
SecretBytes(api_secret) == Join(<<38>>, <<api_secret, <<>>>>)

\* the base string of generate_signature
BaseString(http_method, url, params) ==
  Join(<<38>>,
       <<Upper(http_method), quote(url), quote(urlencode(sorted(params)))>>)

\* generate_signature that aborts on any non-ASCII parameter value
generate_signature_strict(api_secret, http_method, url, params) ==
  LET secret == SecretBytes(api_secret)
      base == BaseString(http_method, url, params)
  IN  IF ~IsAscii(secret) \/ ~IsAscii(base)
           \/ \E i \in 1..Len(params) : ~IsAscii(params[i][2])
        THEN [raised |-> "UnicodeEncodeError", sig |-> NoSignature]
        ELSE [raised |-> "none", sig |-> b64encode(HmacSha1(secret, base))]

\* Gallery.generate_signature(http_method, url, params) of a Gallery whose
\* secret is api_secret; bytes(..., "ascii") raises on a code point >= 128
generate_signature(api_secret, http_method, url, params) ==
  LET secret == SecretBytes(api_secret)
      base == BaseString(http_method, url, params)
  IN  IF ~IsAscii(secret) \/ ~IsAscii(base)
        THEN [raised |-> "UnicodeEncodeError", sig |-> NoSignature]
        ELSE [raised |-> "none", sig |-> b64encode(HmacSha1(secret, base))]

----------------------------------------------------------------------------
(* OAuth parameters and the nonce *)

\* string.ascii_uppercase + string.digits + string.ascii_lowercase
tmp_string ==
  <<65, 66, 67, 68, 69, 70, 71, 72, 73, 74, 75, 76, 77, 78, 79, 80, 81, 82,
    83, 84, 85, 86, 87, 88, 89, 90, 48, 49, 50, 51, 52, 53, 54, 55, 56, 57,
    97, 98, 99, 100, 101, 102, 103, 104, 105, 106, 107, 108, 109, 110, 111,
    112, 113, 114, 115, 116, 117, 118, 119, 120, 121, 122>>

\* the length build_oauth_params asks for
NonceLength == 5

\* the results of random.choice(seq) the model explores: the first and the
\* last element
RandomChoice(seq) == { seq[1], seq[Len(seq)] }

\* generate_nonce(length): every string the choices can produce
generate_nonce(length) == [1..length -> RandomChoice(tmp_string)]

\* int(math.floor(time.time())): the clock readings the model explores
Times == { 1000000000 + i : i \in 0..MaxTick }

K_consumer_key ==
  <<111, 97, 117, 116, 104, 95, 99, 111, 110, 115, 117, 109, 101, 114, 95,
    107, 101, 121>>
K_nonce == <<111, 97, 117, 116, 104, 95, 110, 111, 110, 99, 101>>
K_signature_method ==
  <<111, 97, 117, 116, 104, 95, 115, 105, 103, 110, 97, 116, 117, 114, 101,
    95, 109, 101, 116, 104, 111, 100>>
K_timestamp ==
  <<111, 97, 117, 116, 104, 95, 116, 105, 109, 101, 115, 116, 97, 109, 112>>
K_version ==
  <<111, 97, 117, 116, 104, 95, 118, 101, 114, 115, 105, 111, 110>>
K_signature ==
  <<111, 97, 117, 116, 104, 95, 115, 105, 103, 110, 97, 116, 117, 114, 101>>
\* "HMAC-SHA1"
V_hmac_sha1 == <<72, 77, 65, 67, 45, 83, 72, 65, 49>>
\* "1.0"
V_version == <<49, 46, 48>>

\* build_oauth_params with the nonce and the clock reading it drew: the
\* dict in insertion order
build_oauth_params(api_key, nonce, now) ==
  << <<K_consumer_key, api_key>>,
     <<K_nonce, nonce>>,
     <<K_signature_method, V_hmac_sha1>>,
     <<K_timestamp, ToDecimal(now)>>,
     <<K_version, V_version>> >>

Keys(items) == { items[i][1] : i \in 1..Len(items) }

\* params.update({key: value})
DictUpdate(items, key, value) ==
  IF key \in Keys(items)
    THEN [i \in 1..Len(items) |->
            IF items[i][1] = key THEN <<key, value>> ELSE items[i]]
    ELSE Append(items, <<key, value>>)

\* params[key] of a mapping that holds the key
DictGet(items, key) ==
  LET i == CHOOSE j \in 1..Len(items) : items[j][1] = key IN items[i][2]

\* the mapping without one key
DictWithout(items, key) ==
  SelectSeq(items, LAMBDA it : it[1] # key)

----------------------------------------------------------------------------
(* Endpoint operations *)

GET == <<71, 69, 84>>
POST == <<80, 79, 83, 84>>

Endpoints ==
  { "subscription", "questions", "execute_workflow", "get_jobs",
    "get_job_status", "get_job_output", "get_workflows", "get_app" }

\* every endpoint signs as GET
MethodAlwaysGet(name) == GET

\* the `method` local of each endpoint: what is signed
Method(name) == IF name = "execute_workflow" THEN POST ELSE GET

\* the requests function each endpoint calls: what is sent
HttpVerb(name) == IF name = "execute_workflow" THEN POST ELSE GET

\* the `url` local of each endpoint; args are the positional arguments
Url(api_location, name, args) ==
  CASE name = "subscription" ->
         api_location \o <<47, 118, 49, 47, 119, 111, 114, 107, 102, 108,
                           111, 119, 115, 47, 115, 117, 98, 115, 99, 114,
                           105, 112, 116, 105, 111, 110, 47>>
    [] name = "questions" ->
         api_location \o <<47, 118, 49, 47, 119, 111, 114, 107, 102, 108,
                           111, 119, 115, 47>>
           \o args[1].val \o <<47, 113, 117, 101, 115, 116, 105, 111, 110,
                               115, 47>>
    [] name \in {"execute_workflow", "get_jobs"} ->
         api_location \o <<47, 118, 49, 47, 119, 111, 114, 107, 102, 108,
                           111, 119, 115, 47>>
           \o args[1].val \o <<47, 106, 111, 98, 115, 47>>
    [] name = "get_job_status" ->
         api_location \o <<47, 118, 49, 47, 106, 111, 98, 115, 47>>
           \o args[1].val \o <<47>>
    [] name = "get_job_output" ->
         api_location \o <<47, 118, 49, 47, 106, 111, 98, 115, 47>>
           \o args[1].val \o <<47, 111, 117, 116, 112, 117, 116, 47>>
           \o args[2].val \o <<47>>
    [] name = "get_workflows" ->
         api_location \o <<47, 97, 100, 109, 105, 110, 47, 118, 49, 47, 119,
                           111, 114, 107, 102, 108, 111, 119, 115, 47>>
    [] name = "get_app" ->
         api_location \o <<47, 118, 49, 47, 119, 111, 114, 107, 102, 108,
                           111, 119, 115, 47>>
           \o args[1].val \o <<47, 112, 97, 99, 107, 97, 103, 101, 47>>

\* every endpoint parses its body as JSON
ParsesJsonAlways(name) == TRUE

\* whether the endpoint passes the decoded body to json.loads
ParsesJson(name) == name # "get_job_output"

\* the app, job and output ids the model passes: "a1"
Ids == { <<97, 49>> }

\* the values the model passes as payload=
Payloads == { PyNone, Dict0, PyInt(7) }

\* [name, args, has_payload, payload] of the calls the model makes
EndpointCalls ==
  LET call(n, a, h, p) ==
        [name |-> n, args |-> a, has_payload |-> h, payload |-> p]
  IN  { call(n, <<>>, FALSE, PyNone) : n \in {"subscription", "get_workflows"} }
      \cup { call(n, <<PyStr(i)>>, FALSE, PyNone) :
               n \in {"questions", "execute_workflow", "get_jobs",
                      "get_job_status", "get_app"},
               i \in Ids }
      \cup { call("execute_workflow", <<PyStr(i)>>, TRUE, p) :
               i \in Ids, p \in Payloads }
      \cup { call("get_job_output", <<PyStr(i), PyStr(j)>>, FALSE, PyNone) :
               i \in Ids, j \in Ids }

NoBody == [present |-> FALSE, json |-> PyNone]

\* the request the requests library prepares for requests.get/post(url,
\* params=..., json=..., headers=...); json=None is the keyword's default
\* and means no body
PreparedRequest(verb, url, params, json, headers) ==
  [sent |-> TRUE, verb |-> verb, url |-> url, params |-> params,
   headers |-> headers,
   body |-> IF json = PyNone THEN NoBody ELSE [present |-> TRUE, json |-> json]]

NoRequest ==
  [sent |-> FALSE, verb |-> <<>>, url |-> <<>>, params |-> <<>>,
   headers |-> {}, body |-> NoBody]

\* execute_workflow sending the payload without the Content-Type header
HttpCallNoHeader(call, url, params) ==
  IF call.name = "execute_workflow" /\ call.has_payload
    THEN PreparedRequest(POST, url, params, call.payload, {})
    ELSE PreparedRequest(HttpVerb(call.name), url, params, PyNone, {})

\* the requests.get / requests.post call of each endpoint
HttpCall(call, url, params) ==
  IF call.name = "execute_workflow" /\ call.has_payload
    THEN PreparedRequest(POST, url, params, call.payload,
                         {<<"Content-Type", "application/json">>})
    ELSE PreparedRequest(HttpVerb(call.name), url, params, PyNone, {})

----------------------------------------------------------------------------
(* Responses and their decoding *)

RECURSIVE Utf8Decode(_)
\* bytes.decode("utf8"): [ok, text]; ok is FALSE on a UnicodeDecodeError
Utf8Decode(bytes) ==
  IF bytes = <<>> THEN [ok |-> TRUE, text |-> <<>>]
  ELSE LET b == bytes[1]
           cont(i) == Len(bytes) >= i /\ bytes[i] >= 128 /\ bytes[i] <= 191
           rest(n, c) ==
             LET r == Utf8Decode(SubSeq(bytes, n + 1, Len(bytes)))
             IN  [ok |-> r.ok, text |-> <<c>> \o r.text]
       IN  IF b < 128 THEN rest(1, b)
           ELSE IF b >= 194 /\ b <= 223 /\ cont(2)
             THEN rest(2, (b - 192) * 64 + (bytes[2] - 128))
           ELSE IF b >= 224 /\ b <= 239 /\ cont(2) /\ cont(3)
                   /\ (b = 224 => bytes[2] >= 160)
                   /\ (b = 237 => bytes[2] <= 159)
             THEN rest(3, (b - 224) * 4096 + (bytes[2] - 128) * 64
                            + (bytes[3] - 128))
           ELSE [ok |-> FALSE, text |-> <<>>]

RECURSIVE ParseDecimal(_)
ParseDecimal(digits) ==
  IF digits = <<>> THEN 0
  ELSE ParseDecimal(SubSeq(digits, 1, Len(digits) - 1)) * 10
         + (digits[Len(digits)] - 48)

\* json.loads(text) on the documents the model's servers answer with: an
\* unsigned integer, a string without escapes, null, {} ; anything else the
\* model feeds it is not JSON.  [ok, value]; ok is FALSE on a JSONDecodeError
JsonLoads(text) ==
  LET n == Len(text)
      isInt == /\ n >= 1
               /\ \A i \in 1..n : text[i] >= 48 /\ text[i] <= 57
               /\ (n > 1 => text[1] # 48)
      isStr == /\ n >= 2
               /\ text[1] = 34
               /\ text[n] = 34
               /\ \A i \in 2..(n - 1) :
                    text[i] >= 32 /\ text[i] # 34 /\ text[i] # 92
  IN  IF isInt THEN [ok |-> TRUE, value |-> PyInt(ParseDecimal(text))]
      ELSE IF isStr
        THEN [ok |-> TRUE, value |-> PyStr(SubSeq(text, 2, n - 1))]
      ELSE IF text = <<110, 117, 108, 108>> THEN [ok |-> TRUE, value |-> PyNone]
      ELSE IF text = <<123, 125>> THEN [ok |-> TRUE, value |-> Dict0]
      ELSE [ok |-> FALSE, value |-> PyNone]

\* response bodies: 7, "é" (UTF-8), the HTML fragment <h1>, and a lone lead
\* byte that is not UTF-8
B_Int == <<55>>
B_Str == <<34, 195, 169, 34>>
B_NotJson == <<60, 104, 49, 62>>
B_NotUtf8 == <<34, 195, 34>>

Bodies == { B_Int, B_Str, B_NotJson, B_NotUtf8 }
StatusCodes == { 200, 500 }

\* the responses a server can give
Responses ==
  { [received |-> TRUE, status |-> st, content |-> b] :
      st \in StatusCodes, b \in Bodies }

NoResponse == [received |-> FALSE, status |-> 0, content |-> <<>>]

NoResult == [returned |-> FALSE, output |-> NoResponse, output_content |-> PyNone]

\* the tail of an endpoint that returns the raw text when json.loads fails
DecodeLenient(name, output) ==
  LET d == Utf8Decode(output.content)
      j == JsonLoads(d.text)
  IN  IF ~d.ok THEN [raised |-> "UnicodeDecodeError", result |-> NoResult]
      ELSE IF ParsesJson(name) /\ j.ok
        THEN [raised |-> "none",
              result |-> [returned |-> TRUE, output |-> output,
                          output_content |-> j.value]]
      ELSE [raised |-> "none",
            result |-> [returned |-> TRUE, output |-> output,
                        output_content |-> PyStr(d.text)]]

\* the last two lines of every endpoint: decode the body as UTF-8, parse it
\* as JSON (except get_job_output), return (output, output_content)
Decode(name, output) ==
  LET d == Utf8Decode(output.content)
      j == JsonLoads(d.text)
  IN  IF ~d.ok THEN [raised |-> "UnicodeDecodeError", result |-> NoResult]
      ELSE IF ~ParsesJson(name)
        THEN [raised |-> "none",
              result |-> [returned |-> TRUE, output |-> output,
                          output_content |-> PyStr(d.text)]]
      ELSE IF ~j.ok THEN [raised |-> "JSONDecodeError", result |-> NoResult]
      ELSE [raised |-> "none",
            result |-> [returned |-> TRUE, output |-> output,
                        output_content |-> j.value]]

----------------------------------------------------------------------------
(* State *)

VARIABLES
  gallery,       \* the Gallery object: its three private attributes
  op,            \* the operation running or last run: [name, args, ...]
  pc,            \* where the running endpoint is; "ready" between calls
  frame,         \* the locals of the endpoint: method, url, params, signature
  request,       \* the HTTP request the endpoint issued
  response,      \* the response the transport returned
  result,        \* what the operation returned to its caller
  raised,        \* the exception the operation left with, or "none"
  trace,         \* the steps the running endpoint has taken, in order
  callerParams,  \* a mapping the caller holds and passes to generate_signature
  lastSig        \* the last direct generate_signature call and its result

vars ==
  <<gallery, op, pc, frame, request, response, result, raised, trace,
    callerParams, lastSig>>

NoFrame ==
  [method |-> <<>>, url |-> <<>>, params |-> <<>>, signature |-> NoSignature]

NoOp == [name |-> "none", args |-> <<>>, has_payload |-> FALSE, payload |-> PyNone]

NoSig ==
  [called |-> FALSE, method |-> <<>>, url |-> <<>>, params |-> <<>>,
   secret |-> <<>>, raised |-> "none", sig |-> NoSignature]

\* what every operation starts from: the previous call's locals are gone
Fresh ==
  /\ frame' = NoFrame
  /\ request' = NoRequest
  /\ response' = NoResponse
  /\ result' = NoResult
  /\ trace' = <<>>

Init ==
  /\ gallery = NoGallery
  /\ op = NoOp
  /\ pc = "ready"
  /\ frame = NoFrame
  /\ request = NoRequest
  /\ response = NoResponse
  /\ result = NoResult
  /\ raised = "none"
  /\ trace = <<>>
  /\ callerParams = <<>>
  /\ lastSig = NoSig

----------------------------------------------------------------------------
(* Operations on the credentials *)

\* Gallery(api_location, api_key, api_secret)
Construct(loc, key, secret) ==
  /\ pc = "ready"
  /\ ~gallery.constructed
  /\ LET r == Gallery__init__(loc, key, secret)
     IN  /\ gallery' = r.gallery
         /\ raised' = r.raised
  /\ op' = [name |-> "__init__", args |-> <<loc, key, secret>>,
            has_payload |-> FALSE, payload |-> PyNone]
  /\ Fresh
  /\ UNCHANGED <<pc, callerParams, lastSig>>

\* gallery.<field> = v
Assign(field, v) ==
  /\ pc = "ready"
  /\ gallery.constructed
  /\ LET r == CASE field = "api_location" -> api_location_setter(gallery, v)
                [] field = "api_key" -> api_key_setter(gallery, v)
                [] field = "api_secret" -> api_secret_setter(gallery, v)
     IN  /\ gallery' = r.gallery
         /\ raised' = r.raised
  /\ op' = [name |-> field, args |-> <<v>>, has_payload |-> FALSE,
            payload |-> PyNone]
  /\ Fresh
  /\ UNCHANGED <<pc, callerParams, lastSig>>

----------------------------------------------------------------------------
(* An endpoint operation, statement by statement *)

\* entry: method = ..., url = self.api_location + ...
Call(c) ==
  /\ pc = "ready"
  /\ gallery.constructed
  /\ op' = c
  /\ request' = NoRequest
  /\ response' = NoResponse
  /\ result' = NoResult
  /\ trace' = <<>>
  /\ frame' = [NoFrame EXCEPT !.method = Method(c.name),
                              !.url = Url(gallery.api_location, c.name, c.args)]
  /\ raised' = "none"
  /\ pc' = "build"
  /\ UNCHANGED <<gallery, callerParams, lastSig>>

\* params = self.build_oauth_params()
BuildParams ==
  /\ pc = "build"
  /\ \E nonce \in generate_nonce(NonceLength), now \in Times :
       frame' = [frame EXCEPT
                   !.params = build_oauth_params(gallery.api_key, nonce, now)]
  /\ trace' = Append(trace, "build_oauth_params")
  /\ pc' = "sign"
  /\ UNCHANGED <<gallery, op, request, response, result, raised,
                 callerParams, lastSig>>

\* signature = self.generate_signature(method, url, params)
Sign ==
  /\ pc = "sign"
  /\ LET r == generate_signature(gallery.api_secret, frame.method, frame.url,
                                 frame.params)
     IN  /\ raised' = r.raised
         /\ frame' = [frame EXCEPT !.signature = r.sig]
         /\ pc' = IF r.raised = "none" THEN "attach" ELSE "ready"
  /\ trace' = Append(trace, "generate_signature")
  /\ UNCHANGED <<gallery, op, request, response, result, callerParams,
                 lastSig>>

\* params.update({"oauth_signature": signature})
Attach ==
  /\ pc = "attach"
  /\ frame' = [frame EXCEPT
                 !.params = DictUpdate(frame.params, K_signature,
                                       frame.signature)]
  /\ trace' = Append(trace, "update")
  /\ pc' = "send"
  /\ UNCHANGED <<gallery, op, request, response, result, raised,
                 callerParams, lastSig>>

\* output = requests.get(...) / requests.post(...): the request goes out
\* and the transport returns a response
SendReceive ==
  /\ pc = "send"
  /\ request' = HttpCall(op, frame.url, frame.params)
  /\ \E r \in Responses : response' = r
  /\ trace' = Append(trace, "http")
  /\ pc' = "decode"
  /\ UNCHANGED <<gallery, op, frame, result, raised, callerParams, lastSig>>

\* the same call when the transport fails: requests raises
SendFail ==
  /\ pc = "send"
  /\ request' = HttpCall(op, frame.url, frame.params)
  /\ raised' = "ConnectionError"
  /\ trace' = Append(trace, "http")
  /\ pc' = "ready"
  /\ UNCHANGED <<gallery, op, frame, response, result, callerParams, lastSig>>

\* an endpoint that calls again when the body does not decode
ReturnOrRetry ==
  /\ pc = "decode"
  /\ LET r == Decode(op.name, response)
     IN  /\ raised' = r.raised
         /\ result' = r.result
         /\ pc' = IF r.raised = "none" THEN "ready" ELSE "send"
  /\ UNCHANGED <<gallery, op, frame, request, response, trace, callerParams,
                 lastSig>>

\* output_content = json.loads(output.content.decode("utf8")); return
Return ==
  /\ pc = "decode"
  /\ LET r == Decode(op.name, response)
     IN  /\ raised' = r.raised
         /\ result' = r.result
  /\ pc' = "ready"
  /\ UNCHANGED <<gallery, op, frame, request, response, trace, callerParams,
                 lastSig>>

----------------------------------------------------------------------------
(* generate_signature called directly by a caller *)

\* the items ("a", "1"), ("b", "é x"), ("B", "1") of the mappings a caller
\* builds
ParamItems == { <<<<97>>, <<49>>>>, <<<<98>>, StrAccent>>, <<<<66>>, <<49>>>> }

\* the dicts a caller can build: up to MaxParams distinct keys, in any
\* insertion order
Mappings ==
  UNION { { m \in [1..n -> ParamItems] :
              \A i, j \in 1..n : i # j => m[i][1] # m[j][1] } :
          n \in 0..MaxParams }

\* the methods "get", "POST" and the URLs "h:/a", "é x" a caller passes
DirectMethods == { <<103, 101, 116>>, POST }
DirectUrls == { StrLoc, StrAccent }

\* the caller builds the mapping it is going to pass
SetCallerParams(m) ==
  /\ pc = "ready"
  /\ gallery.constructed
  /\ callerParams' = m
  /\ op' = [name |-> "dict", args |-> <<>>, has_payload |-> FALSE,
            payload |-> PyNone]
  /\ raised' = "none"
  /\ Fresh
  /\ UNCHANGED <<gallery, pc, lastSig>>

\* a generate_signature that sorts the caller's mapping in place
CallGenerateSignatureSorting(http_method, url) ==
  /\ pc = "ready"
  /\ gallery.constructed
  /\ LET r == generate_signature(gallery.api_secret, http_method, url,
                                 callerParams)
     IN  /\ raised' = r.raised
         /\ lastSig' = [called |-> TRUE, method |-> http_method, url |-> url,
                        params |-> callerParams,
                        secret |-> gallery.api_secret,
                        raised |-> r.raised, sig |-> r.sig]
  /\ callerParams' = sorted(callerParams)
  /\ op' = [name |-> "generate_signature",
            args |-> <<PyStr(http_method), PyStr(url)>>,
            has_payload |-> FALSE, payload |-> PyNone]
  /\ Fresh
  /\ UNCHANGED <<gallery, pc>>

\* gallery.generate_signature(http_method, url, callerParams)
CallGenerateSignature(http_method, url) ==
  /\ pc = "ready"
  /\ gallery.constructed
  /\ LET r == generate_signature(gallery.api_secret, http_method, url,
                                 callerParams)
     IN  /\ raised' = r.raised
         /\ lastSig' = [called |-> TRUE, method |-> http_method, url |-> url,
                        params |-> callerParams,
                        secret |-> gallery.api_secret,
                        raised |-> r.raised, sig |-> r.sig]
  /\ op' = [name |-> "generate_signature",
            args |-> <<PyStr(http_method), PyStr(url)>>,
            has_payload |-> FALSE, payload |-> PyNone]
  /\ Fresh
  /\ UNCHANGED <<gallery, pc, callerParams>>

Next ==
  \/ \E loc \in PyValues, key \in PyValues, secret \in PyValues :
       Construct(loc, key, secret)
  \/ \E field \in {"api_location", "api_key", "api_secret"}, v \in PyValues :
       Assign(field, v)
  \/ \E c \in EndpointCalls : Call(c)
  \/ BuildParams
  \/ Sign
  \/ Attach
  \/ SendReceive
  \/ SendFail
  \/ Return

Spec == Init /\ [][Next]_vars

\* a constructed Gallery whose generate_signature a caller uses directly
InitSign ==
  /\ gallery = [constructed |-> TRUE, api_location |-> StrLoc,
                api_key |-> StrLoc, api_secret |-> StrLoc]
  /\ op = NoOp
  /\ pc = "ready"
  /\ frame = NoFrame
  /\ request = NoRequest
  /\ response = NoResponse
  /\ result = NoResult
  /\ raised = "none"
  /\ trace = <<>>
  /\ callerParams = <<>>
  /\ lastSig = NoSig

NextSign ==
  \/ \E field \in {"api_key", "api_secret"}, v \in PyValues :
       Assign(field, v)
  \/ \E m \in Mappings : SetCallerParams(m)
  \/ \E m \in DirectMethods, u \in DirectUrls : CallGenerateSignature(m, u)

SpecSign == InitSign /\ [][NextSign]_vars

----------------------------------------------------------------------------
(* Properties *)

Fields == {"api_location", "api_key", "api_secret"}

\* a non-empty str
ValidCredential(v) == v.type = "str" /\ v.val # <<>>

SetterErrors == {"Exception", "TypeError"}

\* what a construction step must do, from the arguments recorded in op
ConstructContract ==
  LET a == op'.args
  IN  IF \A i \in 1..3 : ValidCredential(a[i])
        THEN /\ raised' = "none"
             /\ gallery' = [constructed |-> TRUE, api_location |-> a[1].val,
                            api_key |-> a[2].val, api_secret |-> a[3].val]
        ELSE /\ raised' \in SetterErrors
             /\ gallery' = NoGallery

\* what an assignment step must do
AssignContract ==
  LET f == op'.name
      v == op'.args[1]
  IN  IF ValidCredential(v)
        THEN /\ raised' = "none"
             /\ gallery' = [gallery EXCEPT ![f] = v.val]
        ELSE /\ raised' \in SetterErrors
             /\ gallery' = gallery

\* C1: constructing a Gallery stores the three values when all are non-empty
\* strings and raises, leaving no object, when any is empty or not a string;
\* each later assignment stores a non-empty string and raises, storing
\* nothing, on anything else.
Thm_C1 ==
  [][ /\ (op'.name = "__init__" => ConstructContract)
      /\ (op'.name \in Fields => AssignContract) ]_vars

\* an assignment of a non-string was rejected with TypeError
Wit_C1 ==
  /\ gallery.constructed
  /\ op.name = "api_key"
  /\ op.args[1] = PyInt(7)
  /\ raised = "TypeError"

\* C2 as stated: once constructed, the stored credentials never change.
Orig_C2 == [][gallery.constructed => gallery' = gallery]_vars

\* C2 amended: the stored credentials change only by a successful assignment
\* of a non-empty string, which replaces the assigned field alone; no
\* endpoint step and no rejected assignment changes them.
Thm_C2 ==
  [][ (gallery.constructed /\ gallery' # gallery) =>
        /\ op'.name \in Fields
        /\ raised' = "none"
        /\ ValidCredential(op'.args[1])
        /\ gallery' = [gallery EXCEPT ![op'.name] = op'.args[1].val] ]_vars

\* an accepted assignment replaced the secret given at construction
Wit_C2 ==
  /\ gallery.constructed
  /\ op.name = "api_secret"
  /\ raised = "none"
  /\ gallery.api_secret = StrAccent
  /\ gallery.api_location = StrLoc

\* every insertion order of the items of a mapping
Orderings(items) ==
  LET n == Len(items)
  IN  { [i \in 1..n |-> items[f[i]]] :
          f \in { g \in [1..n -> 1..n] : \A i, j \in 1..n :
                                           i # j => g[i] # g[j] } }

\* C3: the signature of a mapping is the signature of every other insertion
\* order of the same items.
Thm_C3 ==
  lastSig.called =>
    \A m \in Orderings(lastSig.params) :
      LET r == generate_signature(lastSig.secret, lastSig.method,
                                  lastSig.url, m)
      IN  r.raised = lastSig.raised /\ r.sig = lastSig.sig

\* a signature was computed for a mapping whose insertion order is not its
\* sorted order
Wit_C3 ==
  /\ lastSig.called
  /\ lastSig.raised = "none"
  /\ Len(lastSig.params) >= 2
  /\ sorted(lastSig.params) # lastSig.params

\* a step that is a direct generate_signature call
IsSignCall == op'.name = "generate_signature"

SameArguments ==
  /\ lastSig.called
  /\ lastSig'.method = lastSig.method
  /\ lastSig'.url = lastSig.url
  /\ lastSig'.params = lastSig.params

SameResult == lastSig'.raised = lastSig.raised /\ lastSig'.sig = lastSig.sig

\* C4 as stated: two calls with the same method, URL and mapping return the
\* same signature whatever happened on the Gallery in between, and a call
\* changes neither the Gallery nor the mapping.
Orig_C4 ==
  [][ IsSignCall =>
        /\ gallery' = gallery
        /\ callerParams' = callerParams
        /\ (SameArguments => SameResult) ]_vars

\* C4 amended: two calls with the same method, URL and mapping made while
\* the same api_secret is stored return the same signature, and a call
\* changes neither the Gallery nor the mapping.
Thm_C4 ==
  [][ IsSignCall =>
        /\ gallery' = gallery
        /\ callerParams' = callerParams
        /\ (SameArguments /\ lastSig.secret = gallery.api_secret
              => SameResult) ]_vars

\* a signature was computed for an unsorted mapping, which the caller still
\* holds as it built it
Wit_C4 ==
  /\ lastSig.called
  /\ op.name = "generate_signature"
  /\ lastSig.raised = "none"
  /\ callerParams = lastSig.params
  /\ sorted(callerParams) # callerParams

\* the endpoint has called generate_signature
SignAttempted == Len(trace) >= 2 /\ trace[2] = "generate_signature"

\* the mapping that was signed
SignedParams == DictWithout(frame.params, K_signature)

NonAsciiSecret == ~IsAscii(gallery.api_secret)

NonAsciiParam ==
  \E i \in 1..Len(SignedParams) : ~IsAscii(SignedParams[i][2])

SigningAborted ==
  /\ raised = "UnicodeEncodeError"
  /\ frame.signature = NoSignature
  /\ ~request.sent
  /\ pc = "ready"
  /\ trace = <<"build_oauth_params", "generate_signature">>

\* C5 as stated: a non-ASCII character in api_secret or in a parameter value
\* makes signing fail and the endpoint abort without a request.
Orig_C5 ==
  (SignAttempted /\ (NonAsciiSecret \/ NonAsciiParam)) => SigningAborted

\* C5 amended: a non-ASCII character in api_secret makes signing fail with an
\* encoding error and the endpoint abort without a request; a non-ASCII
\* character in a parameter value (or the URL) does not: it is
\* percent-encoded and the signature is computed.
Thm_C5 ==
  SignAttempted =>
    IF NonAsciiSecret THEN SigningAborted
    ELSE /\ raised # "UnicodeEncodeError"
         /\ frame.signature # NoSignature

\* an endpoint was aborted by a non-ASCII secret
Wit_C5 == SignAttempted /\ NonAsciiSecret /\ SigningAborted

EndpointSteps == <<"build_oauth_params", "generate_signature", "update", "http">>

FiveKeys == {K_consumer_key, K_nonce, K_signature_method, K_timestamp, K_version}

\* C6: an endpoint builds a fresh mapping, signs, attaches the signature and
\* issues the HTTP call, in that order, with at most one HTTP request per
\* invocation whatever the outcome.
Thm_C6 ==
  /\ Len(trace) <= 4
  /\ trace = SubSeq(EndpointSteps, 1, Len(trace))
  /\ (pc = "build" => trace = <<>>)
  /\ (pc = "sign" => Len(trace) = 1 /\ Keys(frame.params) = FiveKeys
                       /\ Len(frame.params) = 5)
  /\ (pc = "attach" => Len(trace) = 2)
  /\ (pc = "send" => Len(trace) = 3 /\ ~request.sent)
  /\ (pc = "decode" => Len(trace) = 4)
  /\ (request.sent <=> Len(trace) = 4)

\* the one request was made and its body failed to parse
Wit_C6 ==
  /\ trace = EndpointSteps
  /\ pc = "ready"
  /\ raised = "JSONDecodeError"

\* the endpoint has finished after the transport gave a response
Finished == pc = "ready" /\ response.received

\* C7 as stated: whenever the HTTP call yields a response, the endpoint
\* returns the response object and the decoded body.
Orig_C7 == Finished => (result.returned /\ result.output = response)

\* the body decodes: as UTF-8 and, except for get_job_output, as JSON
BodyDecodes ==
  LET d == Utf8Decode(response.content)
  IN  d.ok /\ (op.name # "get_job_output" => JsonLoads(d.text).ok)

\* C7 amended: whenever the HTTP call yields a response whose body decodes,
\* the endpoint returns the response object and the decoded body, for every
\* status code; when the body does not decode, the decoding error propagates
\* and nothing is returned.
Thm_C7 ==
  Finished =>
    IF BodyDecodes
      THEN raised = "none" /\ result.returned /\ result.output = response
      ELSE raised \in {"UnicodeDecodeError", "JSONDecodeError"}
           /\ ~result.returned

\* a response with an error status was returned to the caller
Wit_C7 ==
  /\ Finished
  /\ response.status = 500
  /\ result.returned
  /\ result.output.status = 500

ContentTypeJson == {<<"Content-Type", "application/json">>}

SixKeys == FiveKeys \cup {K_signature}

OnlyOAuthQuery ==
  /\ request.verb = POST
  /\ Keys(request.params) = SixKeys
  /\ Len(request.params) = 6

\* C9 as stated: without a payload the POST has no JSON body and no
\* Content-Type; with any payload value the JSON body is that value and the
\* Content-Type is application/json.
Orig_C9 ==
  (op.name = "execute_workflow" /\ request.sent) =>
    /\ OnlyOAuthQuery
    /\ IF op.has_payload
         THEN /\ request.body.present
              /\ request.body.json = op.payload
              /\ request.headers = ContentTypeJson
         ELSE ~request.body.present /\ request.headers = {}

\* C9 amended: without a payload the POST has no JSON body and no
\* Content-Type; with a payload other than None the JSON body is that value
\* and the Content-Type is application/json; with payload=None the
\* Content-Type is application/json and there is no body.
Thm_C9 ==
  (op.name = "execute_workflow" /\ request.sent) =>
    /\ OnlyOAuthQuery
    /\ IF op.has_payload
         THEN /\ request.headers = ContentTypeJson
              /\ IF op.payload = PyNone
                   THEN ~request.body.present
                   ELSE /\ request.body.present
                        /\ request.body.json = op.payload
         ELSE ~request.body.present /\ request.headers = {}

\* a POST went out with the empty dict as its JSON body
Wit_C9 ==
  /\ op.name = "execute_workflow"
  /\ request.sent
  /\ op.has_payload
  /\ op.payload = Dict0
  /\ request.body.present

\* C10: the request carries exactly the six OAuth parameters; its signature
\* is generate_signature of the verb sent, the URL sent (api_location and the
\* operation's path) and the five other parameters sent; the body is no
\* input of the signature.
Thm_C10 ==
  request.sent =>
    /\ Keys(request.params) = SixKeys
    /\ Len(request.params) = 6
    /\ request.url = Url(gallery.api_location, op.name, op.args)
    /\ LET five == DictWithout(request.params, K_signature)
           r == generate_signature(gallery.api_secret, request.verb,
                                   request.url, five)
       IN  /\ r.raised = "none"
           /\ DictGet(request.params, K_signature) = r.sig
           /\ r.sig.b64.msg = BaseString(request.verb, request.url, five)

\* a POST with a JSON body went out
Wit_C10 ==
  /\ request.sent
  /\ op.name = "execute_workflow"
  /\ request.body.present
  /\ request.verb = POST

====
